---- MODULE Spec2Model ----
(***************************************************************************)
(* Sensor-definition registry of the Ecowitt Local integration (const.py). *)
(*                                                                         *)
(* The module body of const.py builds two dictionaries when it is          *)
(* imported: SENSOR_TYPES (sensor key -> descriptor) and BATTERY_SENSORS   *)
(* (battery key -> {name, sensor_key}).  Each starts as a dictionary       *)
(* literal and is then extended by a fixed sequence of                     *)
(* X.update(_generate_..._sensors(...)) statements.                        *)
(*                                                                         *)
(* Python strings that the code takes apart or builds (keys, names,        *)
(* templates) are sequences of one-character strings, so that endswith,    *)
(* "in", slicing, f-strings and str.format are computed, and two keys are  *)
(* equal exactly when their characters are.  Strings that are only stored  *)
(* (unit, device_class, icon, state_class) stay TLA+ strings.  A dict is a *)
(* function whose DOMAIN is its key set.                                   *)
(***************************************************************************)
EXTENDS Integers, Sequences, FiniteSets, TLC

(***************************************************************************)
(* Bounds of the model.                                                    *)
(***************************************************************************)
\* how many times the module body is executed (import plus reloads)
MaxRuns == 2
\* longest base key drawn for a free family definition (SpecGen)
MaxKeyLen == 4
\* largest channel count drawn for a free family definition (SpecGen)
MaxCh == 2

(***************************************************************************)
(* Python string operations.                                               *)
(***************************************************************************)
DecimalDigits == <<"0","1","2","3","4","5","6","7","8","9">>

\* f"{i}" for an int i >= 0: its decimal digits
RECURSIVE Str(_)
Str(n) ==
  IF n < 10 THEN <<DecimalDigits[n + 1]>>
  ELSE Str(n \div 10) \o <<DecimalDigits[(n % 10) + 1]>>

\* s.endswith(suffix)
EndsWith(s, suffix) ==
  /\ Len(s) >= Len(suffix)
  /\ SubSeq(s, Len(s) - Len(suffix) + 1, Len(s)) = suffix

\* sub in s
Contains(s, sub) ==
  \E k \in 1..(Len(s) - Len(sub) + 1) : SubSeq(s, k, k + Len(sub) - 1) = sub

\* s[:-1]
DropLast(s) == SubSeq(s, 1, Len(s) - 1)

\* the replacement field {ch} of the templates
Placeholder == <<"{","c","h","}">>

\* Faulty variant of Format: the template is stored without being formatted.
FormatVerbatim(template, ch) == template

\* template.format(ch=ch): every {ch} field replaced by the decimal form of
\* ch, all other characters copied (the templates hold no other braces)
RECURSIVE Format(_, _)
Format(template, ch) ==
  IF template = <<>> THEN <<>>
  ELSE IF Len(template) >= Len(Placeholder)
          /\ SubSeq(template, 1, Len(Placeholder)) = Placeholder
       THEN Str(ch) \o Format(SubSeq(template, Len(Placeholder) + 1, Len(template)), ch)
       ELSE <<Head(template)>> \o Format(Tail(template), ch)

(***************************************************************************)
(* Python dict operations.                                                 *)
(***************************************************************************)
\* {}
EmptyDict == <<>>

\* d[key] = value
DictSet(d, key, value) ==
  [k \in DOMAIN d \cup {key} |-> IF k = key THEN value ELSE d[k]]

\* Faulty variant of DictUpdate: the dict is replaced instead of extended.
DictUpdateReplace(d, other) == other

\* Faulty variant of DictUpdate: a key already present keeps its old value.
DictUpdateKeepOld(d, other) ==
  [k \in DOMAIN d \cup DOMAIN other |-> IF k \in DOMAIN d THEN d[k] ELSE other[k]]

\* d.update(other): every key of other is written, the rest is kept
DictUpdate(d, other) ==
  [k \in DOMAIN d \cup DOMAIN other |-> IF k \in DOMAIN other THEN other[k] ELSE d[k]]

(***************************************************************************)
(* The literals and the family definitions of the module body.             *)
(***************************************************************************)
StaticSensorTypes ==
  \* "tempinf": "Indoor Temperature"
  <<"t","e","m","p","i","n","f">> :> [name |-> <<"I","n","d","o","o","r"," ","T","e","m","p","e","r","a","t","u","r","e">>, unit |-> "°C", device_class |-> "temperature"] @@
  \* "tempf": "Outdoor Temperature"
  <<"t","e","m","p","f">> :> [name |-> <<"O","u","t","d","o","o","r"," ","T","e","m","p","e","r","a","t","u","r","e">>, unit |-> "°F", device_class |-> "temperature"] @@
  \* "3": "Feels Like Temperature"
  <<"3">> :> [name |-> <<"F","e","e","l","s"," ","L","i","k","e"," ","T","e","m","p","e","r","a","t","u","r","e">>, unit |-> "°C", device_class |-> "temperature"] @@
  \* "5": "Vapor Pressure Deficit"
  <<"5">> :> [name |-> <<"V","a","p","o","r"," ","P","r","e","s","s","u","r","e"," ","D","e","f","i","c","i","t">>, unit |-> "kPa", device_class |-> "pressure"] @@
  \* "humidityin": "Indoor Humidity"
  <<"h","u","m","i","d","i","t","y","i","n">> :> [name |-> <<"I","n","d","o","o","r"," ","H","u","m","i","d","i","t","y">>, unit |-> "%", device_class |-> "humidity"] @@
  \* "humidity": "Outdoor Humidity"
  <<"h","u","m","i","d","i","t","y">> :> [name |-> <<"O","u","t","d","o","o","r"," ","H","u","m","i","d","i","t","y">>, unit |-> "%", device_class |-> "humidity"] @@
  \* "baromrelin": "Relative Pressure"
  <<"b","a","r","o","m","r","e","l","i","n">> :> [name |-> <<"R","e","l","a","t","i","v","e"," ","P","r","e","s","s","u","r","e">>, unit |-> "hPa", device_class |-> "atmospheric_pressure"] @@
  \* "baromabsin": "Absolute Pressure"
  <<"b","a","r","o","m","a","b","s","i","n">> :> [name |-> <<"A","b","s","o","l","u","t","e"," ","P","r","e","s","s","u","r","e">>, unit |-> "hPa", device_class |-> "atmospheric_pressure"] @@
  \* "windspeedmph": "Wind Speed"
  <<"w","i","n","d","s","p","e","e","d","m","p","h">> :> [name |-> <<"W","i","n","d"," ","S","p","e","e","d">>, unit |-> "mph", device_class |-> "wind_speed"] @@
  \* "windspdmph_avg10m": "Wind Speed 10min Avg"
  <<"w","i","n","d","s","p","d","m","p","h","_","a","v","g","1","0","m">> :> [name |-> <<"W","i","n","d"," ","S","p","e","e","d"," ","1","0","m","i","n"," ","A","v","g">>, unit |-> "mph", device_class |-> "wind_speed"] @@
  \* "windgustmph": "Wind Gust"
  <<"w","i","n","d","g","u","s","t","m","p","h">> :> [name |-> <<"W","i","n","d"," ","G","u","s","t">>, unit |-> "mph", device_class |-> "wind_speed"] @@
  \* "maxdailygust": "Max Daily Gust"
  <<"m","a","x","d","a","i","l","y","g","u","s","t">> :> [name |-> <<"M","a","x"," ","D","a","i","l","y"," ","G","u","s","t">>, unit |-> "mph", device_class |-> "wind_speed"] @@
  \* "winddir": "Wind Direction"
  <<"w","i","n","d","d","i","r">> :> [name |-> <<"W","i","n","d"," ","D","i","r","e","c","t","i","o","n">>, unit |-> "°", icon |-> "mdi:compass"] @@
  \* "winddir_avg10m": "Wind Direction 10min Avg"
  <<"w","i","n","d","d","i","r","_","a","v","g","1","0","m">> :> [name |-> <<"W","i","n","d"," ","D","i","r","e","c","t","i","o","n"," ","1","0","m","i","n"," ","A","v","g">>, unit |-> "°", icon |-> "mdi:compass"] @@
  \* "rainratein": "Rain Rate"
  <<"r","a","i","n","r","a","t","e","i","n">> :> [name |-> <<"R","a","i","n"," ","R","a","t","e">>, unit |-> "in/hr", device_class |-> "precipitation_intensity", state_class |-> "measurement"] @@
  \* "eventrainin": "Event Rain"
  <<"e","v","e","n","t","r","a","i","n","i","n">> :> [name |-> <<"E","v","e","n","t"," ","R","a","i","n">>, unit |-> "in", device_class |-> "precipitation", state_class |-> "total"] @@
  \* "hourlyrainin": "Hourly Rain"
  <<"h","o","u","r","l","y","r","a","i","n","i","n">> :> [name |-> <<"H","o","u","r","l","y"," ","R","a","i","n">>, unit |-> "in", device_class |-> "precipitation", state_class |-> "total_increasing"] @@
  \* "dailyrainin": "Daily Rain"
  <<"d","a","i","l","y","r","a","i","n","i","n">> :> [name |-> <<"D","a","i","l","y"," ","R","a","i","n">>, unit |-> "in", device_class |-> "precipitation", state_class |-> "total_increasing"] @@
  \* "weeklyrainin": "Weekly Rain"
  <<"w","e","e","k","l","y","r","a","i","n","i","n">> :> [name |-> <<"W","e","e","k","l","y"," ","R","a","i","n">>, unit |-> "in", device_class |-> "precipitation", state_class |-> "total_increasing"] @@
  \* "monthlyrainin": "Monthly Rain"
  <<"m","o","n","t","h","l","y","r","a","i","n","i","n">> :> [name |-> <<"M","o","n","t","h","l","y"," ","R","a","i","n">>, unit |-> "in", device_class |-> "precipitation", state_class |-> "total_increasing"] @@
  \* "yearlyrainin": "Yearly Rain"
  <<"y","e","a","r","l","y","r","a","i","n","i","n">> :> [name |-> <<"Y","e","a","r","l","y"," ","R","a","i","n">>, unit |-> "in", device_class |-> "precipitation", state_class |-> "total_increasing"] @@
  \* "totalrainin": "Total Rain"
  <<"t","o","t","a","l","r","a","i","n","i","n">> :> [name |-> <<"T","o","t","a","l"," ","R","a","i","n">>, unit |-> "in", device_class |-> "precipitation", state_class |-> "total_increasing"] @@
  \* "solarradiation": "Solar Radiation"
  <<"s","o","l","a","r","r","a","d","i","a","t","i","o","n">> :> [name |-> <<"S","o","l","a","r"," ","R","a","d","i","a","t","i","o","n">>, unit |-> "W/m²", device_class |-> "irradiance"] @@
  \* "uv": "UV Index"
  <<"u","v">> :> [name |-> <<"U","V"," ","I","n","d","e","x">>, unit |-> "UV Index", icon |-> "mdi:weather-sunny-alert"] @@
  \* "lightning_num": "Lightning Strikes"
  <<"l","i","g","h","t","n","i","n","g","_","n","u","m">> :> [name |-> <<"L","i","g","h","t","n","i","n","g"," ","S","t","r","i","k","e","s">>, unit |-> "strikes", icon |-> "mdi:flash"] @@
  \* "lightning_time": "Last Lightning"
  <<"l","i","g","h","t","n","i","n","g","_","t","i","m","e">> :> [name |-> <<"L","a","s","t"," ","L","i","g","h","t","n","i","n","g">>, device_class |-> "timestamp"] @@
  \* "lightning": "Lightning Distance"
  <<"l","i","g","h","t","n","i","n","g">> :> [name |-> <<"L","i","g","h","t","n","i","n","g"," ","D","i","s","t","a","n","c","e">>, unit |-> "km", device_class |-> "distance"] @@
  \* "lightning_mi": "Lightning Distance"
  <<"l","i","g","h","t","n","i","n","g","_","m","i">> :> [name |-> <<"L","i","g","h","t","n","i","n","g"," ","D","i","s","t","a","n","c","e">>, unit |-> "mi", device_class |-> "distance"] @@
  \* "tf_co2": "CO2 Sensor Temperature"
  <<"t","f","_","c","o","2">> :> [name |-> <<"C","O","2"," ","S","e","n","s","o","r"," ","T","e","m","p","e","r","a","t","u","r","e">>, unit |-> "°F", device_class |-> "temperature"] @@
  \* "tf_co2c": "CO2 Sensor Temperature"
  <<"t","f","_","c","o","2","c">> :> [name |-> <<"C","O","2"," ","S","e","n","s","o","r"," ","T","e","m","p","e","r","a","t","u","r","e">>, unit |-> "°C", device_class |-> "temperature"] @@
  \* "humi_co2": "CO2 Sensor Humidity"
  <<"h","u","m","i","_","c","o","2">> :> [name |-> <<"C","O","2"," ","S","e","n","s","o","r"," ","H","u","m","i","d","i","t","y">>, unit |-> "%", device_class |-> "humidity"] @@
  \* "pm25_co2": "PM2.5"
  <<"p","m","2","5","_","c","o","2">> :> [name |-> <<"P","M","2",".","5">>, unit |-> "µg/m³", device_class |-> "pm25"] @@
  \* "pm25_24h_co2": "PM2.5 24h Avg"
  <<"p","m","2","5","_","2","4","h","_","c","o","2">> :> [name |-> <<"P","M","2",".","5"," ","2","4","h"," ","A","v","g">>, unit |-> "µg/m³", device_class |-> "pm25"] @@
  \* "pm10_co2": "PM10"
  <<"p","m","1","0","_","c","o","2">> :> [name |-> <<"P","M","1","0">>, unit |-> "µg/m³", device_class |-> "pm10"] @@
  \* "pm10_24h_co2": "PM10 24h Avg"
  <<"p","m","1","0","_","2","4","h","_","c","o","2">> :> [name |-> <<"P","M","1","0"," ","2","4","h"," ","A","v","g">>, unit |-> "µg/m³", device_class |-> "pm10"] @@
  \* "co2": "CO2"
  <<"c","o","2">> :> [name |-> <<"C","O","2">>, unit |-> "ppm", device_class |-> "carbon_dioxide"] @@
  \* "co2_24h": "CO2 24h Avg"
  <<"c","o","2","_","2","4","h">> :> [name |-> <<"C","O","2"," ","2","4","h"," ","A","v","g">>, unit |-> "ppm", device_class |-> "carbon_dioxide"] @@
  \* "0x02": "Outdoor Temperature"
  <<"0","x","0","2">> :> [name |-> <<"O","u","t","d","o","o","r"," ","T","e","m","p","e","r","a","t","u","r","e">>, unit |-> "°C", device_class |-> "temperature"] @@
  \* "0x03": "Dewpoint Temperature"
  <<"0","x","0","3">> :> [name |-> <<"D","e","w","p","o","i","n","t"," ","T","e","m","p","e","r","a","t","u","r","e">>, unit |-> "°C", device_class |-> "temperature"] @@
  \* "0x07": "Outdoor Humidity"
  <<"0","x","0","7">> :> [name |-> <<"O","u","t","d","o","o","r"," ","H","u","m","i","d","i","t","y">>, unit |-> "%", device_class |-> "humidity"] @@
  \* "0x0B": "Wind Speed"
  <<"0","x","0","B">> :> [name |-> <<"W","i","n","d"," ","S","p","e","e","d">>, unit |-> "m/s", device_class |-> "wind_speed"] @@
  \* "0x0C": "Wind Gust"
  <<"0","x","0","C">> :> [name |-> <<"W","i","n","d"," ","G","u","s","t">>, unit |-> "m/s", device_class |-> "wind_speed"] @@
  \* "0x19": "Max Daily Gust"
  <<"0","x","1","9">> :> [name |-> <<"M","a","x"," ","D","a","i","l","y"," ","G","u","s","t">>, unit |-> "m/s", device_class |-> "wind_speed"] @@
  \* "0x0A": "Wind Direction"
  <<"0","x","0","A">> :> [name |-> <<"W","i","n","d"," ","D","i","r","e","c","t","i","o","n">>, unit |-> "°", icon |-> "mdi:compass"] @@
  \* "0x6D": "Wind Direction Avg"
  <<"0","x","6","D">> :> [name |-> <<"W","i","n","d"," ","D","i","r","e","c","t","i","o","n"," ","A","v","g">>, unit |-> "°", icon |-> "mdi:compass"] @@
  \* "0x15": "Solar Radiation"
  <<"0","x","1","5">> :> [name |-> <<"S","o","l","a","r"," ","R","a","d","i","a","t","i","o","n">>, unit |-> "W/m²", device_class |-> "irradiance"] @@
  \* "0x17": "UV Index"
  <<"0","x","1","7">> :> [name |-> <<"U","V"," ","I","n","d","e","x">>, unit |-> "UV Index", icon |-> "mdi:weather-sunny-alert"] @@
  \* "0x0D": "Rain Event"
  <<"0","x","0","D">> :> [name |-> <<"R","a","i","n"," ","E","v","e","n","t">>, unit |-> "mm", device_class |-> "precipitation", state_class |-> "total"] @@
  \* "0x0E": "Rain Rate"
  <<"0","x","0","E">> :> [name |-> <<"R","a","i","n"," ","R","a","t","e">>, unit |-> "mm/Hr", device_class |-> "precipitation_intensity", state_class |-> "measurement"] @@
  \* "0x7C": "Daily Rain"
  <<"0","x","7","C">> :> [name |-> <<"D","a","i","l","y"," ","R","a","i","n">>, unit |-> "mm", device_class |-> "precipitation", state_class |-> "total_increasing"] @@
  \* "0x10": "Weekly Rain"
  <<"0","x","1","0">> :> [name |-> <<"W","e","e","k","l","y"," ","R","a","i","n">>, unit |-> "mm", device_class |-> "precipitation", state_class |-> "total_increasing"] @@
  \* "0x11": "Monthly Rain"
  <<"0","x","1","1">> :> [name |-> <<"M","o","n","t","h","l","y"," ","R","a","i","n">>, unit |-> "mm", device_class |-> "precipitation", state_class |-> "total_increasing"] @@
  \* "0x12": "Yearly Rain"
  <<"0","x","1","2">> :> [name |-> <<"Y","e","a","r","l","y"," ","R","a","i","n">>, unit |-> "mm", device_class |-> "precipitation", state_class |-> "total_increasing"] @@
  \* "0x13": "Total Rain"
  <<"0","x","1","3">> :> [name |-> <<"T","o","t","a","l"," ","R","a","i","n">>, unit |-> "mm", device_class |-> "precipitation", state_class |-> "total_increasing"]

StaticBatterySensors ==
  \* "wh57batt": "Lightning Sensor Battery"
  <<"w","h","5","7","b","a","t","t">> :> [name |-> <<"L","i","g","h","t","n","i","n","g"," ","S","e","n","s","o","r"," ","B","a","t","t","e","r","y">>, sensor_key |-> <<"l","i","g","h","t","n","i","n","g">>] @@
  \* "wh40batt": "Rain Sensor Battery"
  <<"w","h","4","0","b","a","t","t">> :> [name |-> <<"R","a","i","n"," ","S","e","n","s","o","r"," ","B","a","t","t","e","r","y">>, sensor_key |-> <<"r","a","i","n","r","a","t","e","i","n">>] @@
  \* "wh68batt": "Weather Station Battery"
  <<"w","h","6","8","b","a","t","t">> :> [name |-> <<"W","e","a","t","h","e","r"," ","S","t","a","t","i","o","n"," ","B","a","t","t","e","r","y">>, sensor_key |-> <<"t","e","m","p","f">>] @@
  \* "wh25batt": "Indoor Station Battery"
  <<"w","h","2","5","b","a","t","t">> :> [name |-> <<"I","n","d","o","o","r"," ","S","t","a","t","i","o","n"," ","B","a","t","t","e","r","y">>, sensor_key |-> <<"t","e","m","p","i","n","f">>] @@
  \* "wh26batt": "Indoor Sensor Battery"
  <<"w","h","2","6","b","a","t","t">> :> [name |-> <<"I","n","d","o","o","r"," ","S","e","n","s","o","r"," ","B","a","t","t","e","r","y">>, sensor_key |-> <<"t","e","m","p","i","n","f">>] @@
  \* "co2_batt": "CO2 Combo Sensor Battery"
  <<"c","o","2","_","b","a","t","t">> :> [name |-> <<"C","O","2"," ","C","o","m","b","o"," ","S","e","n","s","o","r"," ","B","a","t","t","e","r","y">>, sensor_key |-> <<"c","o","2">>] @@
  \* "wh69batt": "WH69 Weather Station Battery"
  <<"w","h","6","9","b","a","t","t">> :> [name |-> <<"W","H","6","9"," ","W","e","a","t","h","e","r"," ","S","t","a","t","i","o","n"," ","B","a","t","t","e","r","y">>, sensor_key |-> <<"0","x","0","2">>] @@
  \* "ws90batt": "WS90 Weather Station Battery"
  <<"w","s","9","0","b","a","t","t">> :> [name |-> <<"W","S","9","0"," ","W","e","a","t","h","e","r"," ","S","t","a","t","i","o","n"," ","B","a","t","t","e","r","y">>, sensor_key |-> <<"0","x","0","2">>] @@
  \* "wh90batt": "WH90 Weather Station Battery"
  <<"w","h","9","0","b","a","t","t">> :> [name |-> <<"W","H","9","0"," ","W","e","a","t","h","e","r"," ","S","t","a","t","i","o","n"," ","B","a","t","t","e","r","y">>, sensor_key |-> <<"0","x","0","2">>] @@
  \* "wh77batt": "WH77 Multi-Sensor Station Battery"
  <<"w","h","7","7","b","a","t","t">> :> [name |-> <<"W","H","7","7"," ","M","u","l","t","i","-","S","e","n","s","o","r"," ","S","t","a","t","i","o","n"," ","B","a","t","t","e","r","y">>, sensor_key |-> <<"0","x","0","2">>]

\* Faulty variant of GATEWAY_SENSORS: "tempin" for "tempinf".
GATEWAY_SENSORS_Misspelt ==
  {<<"3">>,
   <<"5">>,
   <<"b","a","r","o","m","a","b","s","i","n">>,
   <<"b","a","r","o","m","r","e","l","i","n">>,
   <<"h","u","m","i","d","i","t","y","i","n">>,
   <<"t","e","m","p","i","n">>}

GATEWAY_SENSORS ==
  {<<"3">>,
   <<"5">>,
   <<"b","a","r","o","m","a","b","s","i","n">>,
   <<"b","a","r","o","m","r","e","l","i","n">>,
   <<"h","u","m","i","d","i","t","y","i","n">>,
   <<"t","e","m","p","i","n","f">>}

SensorFamilies == <<
  \* base key "tempf"
  [base_key |-> <<"t","e","m","p","f">>,
   name_template |-> <<"T","e","m","p","e","r","a","t","u","r","e"," ","C","H","{","c","h","}">>,
   sensor_def |-> [unit |-> "°C", device_class |-> "temperature"], max_channels |-> 8],
  \* base key "humidity"
  [base_key |-> <<"h","u","m","i","d","i","t","y">>,
   name_template |-> <<"H","u","m","i","d","i","t","y"," ","C","H","{","c","h","}">>,
   sensor_def |-> [unit |-> "%", device_class |-> "humidity"], max_channels |-> 8],
  \* base key "soilmoisture"
  [base_key |-> <<"s","o","i","l","m","o","i","s","t","u","r","e">>,
   name_template |-> <<"S","o","i","l"," ","M","o","i","s","t","u","r","e"," ","C","H","{","c","h","}">>,
   sensor_def |-> [unit |-> "%", device_class |-> "moisture"], max_channels |-> 16],
  \* base key "pm25_ch"
  [base_key |-> <<"p","m","2","5","_","c","h">>,
   name_template |-> <<"P","M","2",".","5"," ","C","H","{","c","h","}">>,
   sensor_def |-> [unit |-> "µg/m³", device_class |-> "pm25"], max_channels |-> 4],
  \* base key "pm25_avg_24h_ch"
  [base_key |-> <<"p","m","2","5","_","a","v","g","_","2","4","h","_","c","h">>,
   name_template |-> <<"P","M","2",".","5"," ","2","4","h"," ","A","v","g"," ","C","H","{","c","h","}">>,
   sensor_def |-> [unit |-> "µg/m³", device_class |-> "pm25"], max_channels |-> 4],
  \* base key "leak_ch"
  [base_key |-> <<"l","e","a","k","_","c","h">>,
   name_template |-> <<"L","e","a","k"," ","S","e","n","s","o","r"," ","C","H","{","c","h","}">>,
   sensor_def |-> [device_class |-> "moisture"], max_channels |-> 4],
  \* base key "leafwetness_ch"
  [base_key |-> <<"l","e","a","f","w","e","t","n","e","s","s","_","c","h">>,
   name_template |-> <<"L","e","a","f"," ","W","e","t","n","e","s","s"," ","C","H","{","c","h","}">>,
   sensor_def |-> [unit |-> "%", device_class |-> "moisture"], max_channels |-> 8],
  \* base key "tf_ch"
  [base_key |-> <<"t","f","_","c","h">>,
   name_template |-> <<"S","o","i","l"," ","T","e","m","p","e","r","a","t","u","r","e"," ","C","H","{","c","h","}">>,
   sensor_def |-> [unit |-> "°F", device_class |-> "temperature"], max_channels |-> 8],
  \* base key "tf_ch"
  [base_key |-> <<"t","f","_","c","h">>,
   name_template |-> <<"S","o","i","l"," ","T","e","m","p","e","r","a","t","u","r","e"," ","C","H","{","c","h","}">>,
   sensor_def |-> [unit |-> "°C", device_class |-> "temperature"], max_channels |-> 8],
  \* base key "dewpoint"
  [base_key |-> <<"d","e","w","p","o","i","n","t">>,
   name_template |-> <<"D","e","w","p","o","i","n","t"," ","C","H","{","c","h","}">>,
   sensor_def |-> [unit |-> "°F", device_class |-> "temperature"], max_channels |-> 8]
>>

BatteryFamilies == <<
  \* base key "soilbatt"
  [base_key |-> <<"s","o","i","l","b","a","t","t">>,
   name_template |-> <<"S","o","i","l"," ","M","o","i","s","t","u","r","e"," ","C","H","{","c","h","}"," ","B","a","t","t","e","r","y">>,
   sensor_key_template |-> <<"s","o","i","l","m","o","i","s","t","u","r","e","{","c","h","}">>, max_channels |-> 16],
  \* base key "batt"
  [base_key |-> <<"b","a","t","t">>,
   name_template |-> <<"T","e","m","p","e","r","a","t","u","r","e","/","H","u","m","i","d","i","t","y"," ","C","H","{","c","h","}"," ","B","a","t","t","e","r","y">>,
   sensor_key_template |-> <<"t","e","m","p","{","c","h","}","f">>, max_channels |-> 8],
  \* base key "pm25batt"
  [base_key |-> <<"p","m","2","5","b","a","t","t">>,
   name_template |-> <<"P","M","2",".","5"," ","C","H","{","c","h","}"," ","B","a","t","t","e","r","y">>,
   sensor_key_template |-> <<"p","m","2","5","_","c","h","{","c","h","}">>, max_channels |-> 4],
  \* base key "leakbatt"
  [base_key |-> <<"l","e","a","k","b","a","t","t">>,
   name_template |-> <<"L","e","a","k"," ","S","e","n","s","o","r"," ","C","H","{","c","h","}"," ","B","a","t","t","e","r","y">>,
   sensor_key_template |-> <<"l","e","a","k","_","c","h","{","c","h","}">>, max_channels |-> 4],
  \* base key "tf_batt"
  [base_key |-> <<"t","f","_","b","a","t","t">>,
   name_template |-> <<"S","o","i","l"," ","T","e","m","p","e","r","a","t","u","r","e"," ","C","H","{","c","h","}"," ","B","a","t","t","e","r","y">>,
   sensor_key_template |-> <<"t","f","_","c","h","{","c","h","}">>, max_channels |-> 8],
  \* base key "leaf_batt"
  [base_key |-> <<"l","e","a","f","_","b","a","t","t">>,
   name_template |-> <<"L","e","a","f"," ","W","e","t","n","e","s","s"," ","C","H","{","c","h","}"," ","B","a","t","t","e","r","y">>,
   sensor_key_template |-> <<"l","e","a","f","w","e","t","n","e","s","s","_","c","h","{","c","h","}">>, max_channels |-> 8]
>>

(***************************************************************************)
(* The generators.                                                         *)
(***************************************************************************)
humidity == <<"h","u","m","i","d","i","t","y">>
soilmoisture == <<"s","o","i","l","m","o","i","s","t","u","r","e">>
leafwetness_ch == <<"l","e","a","f","w","e","t","n","e","s","s","_","c","h">>

\* Faulty variant of ChannelKey: the channel number is always appended.
ChannelKeyAppend(base_key, i) == base_key \o Str(i)

\* Faulty variant of ChannelKey: the humidity branch leaves the channel out.
ChannelKeyHumidityNoIndex(base_key, i) ==
  LET key == IF ~EndsWith(base_key, <<"f">>)
             THEN base_key \o Str(i)
             ELSE DropLast(base_key) \o Str(i) \o <<"f">>
  IN  IF Contains(base_key, <<"_","c","h">>) THEN base_key \o Str(i)
      ELSE IF base_key = humidity THEN humidity
      ELSE IF base_key = soilmoisture THEN soilmoisture \o Str(i)
      ELSE IF base_key = leafwetness_ch THEN leafwetness_ch \o Str(i)
      ELSE key

\* Faulty variant of ChannelKey: the "_ch" branch is missing.
ChannelKeyNoMarker(base_key, i) ==
  IF ~EndsWith(base_key, <<"f">>) THEN base_key \o Str(i)
  ELSE DropLast(base_key) \o Str(i) \o <<"f">>

\* the key computed by one pass of the loop body of _generate_channel_sensors
ChannelKey(base_key, i) ==
  LET key == IF ~EndsWith(base_key, <<"f">>)
             THEN base_key \o Str(i)
             ELSE DropLast(base_key) \o Str(i) \o <<"f">>
  IN  IF Contains(base_key, <<"_","c","h">>) THEN base_key \o Str(i)
      ELSE IF base_key = humidity THEN humidity \o Str(i)
      ELSE IF base_key = soilmoisture THEN soilmoisture \o Str(i)
      ELSE IF base_key = leafwetness_ch THEN leafwetness_ch \o Str(i)
      ELSE key

\* {**sensor_def, "name": name}
ChannelSensor(sensor_def, name) ==
  [f \in DOMAIN sensor_def \cup {"name"} |->
     IF f = "name" THEN name ELSE sensor_def[f]]

\* Faulty variant of BatterySensor: the parent key is built for the next channel.
BatterySensorShifted(name_template, sensor_key_template, i) ==
  [name |-> Format(name_template, i),
   sensor_key |-> Format(sensor_key_template, i + 1)]

\* {"name": name, "sensor_key": sensor_key} of _generate_battery_sensors
BatterySensor(name_template, sensor_key_template, i) ==
  [name |-> Format(name_template, i),
   sensor_key |-> Format(sensor_key_template, i)]

\* Faulty variant of InRange: the loop body runs once before the test.
InRangeAtLeastOnce(i, max_channels) == i < max_channels + 1 \/ i = 1

\* "for i in range(1, max_channels + 1)": is i still in the range
InRange(i, max_channels) == i < max_channels + 1


(***************************************************************************)
(* State.                                                                  *)
(***************************************************************************)
VARIABLES
  pc,               \* the statement of the module body that runs next
  SENSOR_TYPES,     \* the sensor catalog
  BATTERY_SENSORS,  \* the battery catalog
  families,         \* the sensor family definitions, in statement order
  bfamilies,        \* the battery family definitions, in statement order
  idx,              \* which family definition the current statement uses
  i,                \* loop variable of the generator being executed
  sensors,          \* local dict of the generator being executed
  run,              \* how many times the module body has been started
  mode,             \* "scratch": the literals rebind the names;
                    \* "replay": the same statements applied to the catalogs of the previous run
  prev,             \* the catalogs when the current run started
  merged_s,         \* history: the dicts written into SENSOR_TYPES in this run, in order
  merged_b          \* history: the dicts written into BATTERY_SENSORS in this run, in order

vars == <<pc, SENSOR_TYPES, BATTERY_SENSORS, families, bfamilies, idx, i,
          sensors, run, mode, prev, merged_s, merged_b>>

\* the statement after the sensor family statements
AfterSensorFamily(n) ==
  IF n <= Len(families) THEN "channel_call" ELSE "battery_sensors"

\* the statement after the battery family statements
AfterBatteryFamily(n) ==
  IF n <= Len(bfamilies) THEN "battery_call" ELSE "done"

Start ==
  /\ pc = "sensor_types"
  /\ SENSOR_TYPES = EmptyDict
  /\ BATTERY_SENSORS = EmptyDict
  /\ idx = 1
  /\ i = 1
  /\ sensors = EmptyDict
  /\ run = 1
  /\ mode = "scratch"
  /\ prev = [s |-> EmptyDict, b |-> EmptyDict]
  /\ merged_s = <<>>
  /\ merged_b = <<>>

\* the module as written: the family definitions of lines 391-436 and 511-528
Init ==
  /\ families = SensorFamilies
  /\ bfamilies = BatteryFamilies
  /\ Start

\* SENSOR_TYPES: Final = {...}
AssignSensorTypes ==
  /\ pc = "sensor_types"
  /\ SENSOR_TYPES' = IF mode = "scratch" THEN StaticSensorTypes
                     ELSE DictUpdate(SENSOR_TYPES, StaticSensorTypes)
  /\ merged_s' = Append(merged_s, StaticSensorTypes)
  /\ idx' = 1
  /\ pc' = AfterSensorFamily(1)
  /\ UNCHANGED <<BATTERY_SENSORS, families, bfamilies, i, sensors, run, mode,
                 prev, merged_b>>

\* Faulty variant of CallGenerateChannelSensors: the dict is not created anew.
CallGenerateChannelSensorsStale ==
  /\ pc = "channel_call"
  /\ i' = 1
  /\ pc' = "channel_loop"
  /\ UNCHANGED <<SENSOR_TYPES, BATTERY_SENSORS, families, bfamilies, idx,
                 sensors, run, mode, prev, merged_s, merged_b>>

\* _generate_channel_sensors is entered: sensors = {} and the loop starts at 1
CallGenerateChannelSensors ==
  /\ pc = "channel_call"
  /\ sensors' = EmptyDict
  /\ i' = 1
  /\ pc' = "channel_loop"
  /\ UNCHANGED <<SENSOR_TYPES, BATTERY_SENSORS, families, bfamilies, idx,
                 run, mode, prev, merged_s, merged_b>>

\* one pass of the loop body of _generate_channel_sensors
GenerateChannelSensorsStep ==
  /\ pc = "channel_loop"
  /\ InRange(i, families[idx].max_channels)
  /\ sensors' = DictSet(sensors,
                        ChannelKey(families[idx].base_key, i),
                        ChannelSensor(families[idx].sensor_def,
                                      Format(families[idx].name_template, i)))
  /\ i' = i + 1
  /\ UNCHANGED <<pc, SENSOR_TYPES, BATTERY_SENSORS, families, bfamilies, idx,
                 run, mode, prev, merged_s, merged_b>>

\* the loop is over: the generator returns sensors and SENSOR_TYPES.update merges it
UpdateSensorTypes ==
  /\ pc = "channel_loop"
  /\ ~InRange(i, families[idx].max_channels)
  /\ SENSOR_TYPES' = DictUpdate(SENSOR_TYPES, sensors)
  /\ merged_s' = Append(merged_s, sensors)
  /\ idx' = idx + 1
  /\ pc' = AfterSensorFamily(idx + 1)
  /\ UNCHANGED <<BATTERY_SENSORS, families, bfamilies, i, sensors, run, mode,
                 prev, merged_b>>

\* BATTERY_SENSORS: Final = {...}
AssignBatterySensors ==
  /\ pc = "battery_sensors"
  /\ BATTERY_SENSORS' = IF mode = "scratch" THEN StaticBatterySensors
                        ELSE DictUpdate(BATTERY_SENSORS, StaticBatterySensors)
  /\ merged_b' = Append(merged_b, StaticBatterySensors)
  /\ idx' = 1
  /\ pc' = AfterBatteryFamily(1)
  /\ UNCHANGED <<SENSOR_TYPES, families, bfamilies, i, sensors, run, mode,
                 prev, merged_s>>

\* _generate_battery_sensors is entered: sensors = {} and the loop starts at 1
CallGenerateBatterySensors ==
  /\ pc = "battery_call"
  /\ sensors' = EmptyDict
  /\ i' = 1
  /\ pc' = "battery_loop"
  /\ UNCHANGED <<SENSOR_TYPES, BATTERY_SENSORS, families, bfamilies, idx,
                 run, mode, prev, merged_s, merged_b>>

\* one pass of the loop body of _generate_battery_sensors
GenerateBatterySensorsStep ==
  /\ pc = "battery_loop"
  /\ InRange(i, bfamilies[idx].max_channels)
  /\ sensors' = DictSet(sensors,
                        bfamilies[idx].base_key \o Str(i),
                        BatterySensor(bfamilies[idx].name_template,
                                      bfamilies[idx].sensor_key_template, i))
  /\ i' = i + 1
  /\ UNCHANGED <<pc, SENSOR_TYPES, BATTERY_SENSORS, families, bfamilies, idx,
                 run, mode, prev, merged_s, merged_b>>

\* the loop is over: the generator returns sensors and BATTERY_SENSORS.update merges it
UpdateBatterySensors ==
  /\ pc = "battery_loop"
  /\ ~InRange(i, bfamilies[idx].max_channels)
  /\ BATTERY_SENSORS' = DictUpdate(BATTERY_SENSORS, sensors)
  /\ merged_b' = Append(merged_b, sensors)
  /\ idx' = idx + 1
  /\ pc' = AfterBatteryFamily(idx + 1)
  /\ UNCHANGED <<SENSOR_TYPES, families, bfamilies, i, sensors, run, mode,
                 prev, merged_s>>

\* The assembly is run again: the module body is executed once more (the
\* literals rebind both names), or the same statements are applied on top of
\* the catalogs already assembled.  Locals of the finished calls are kept
\* until the next call overwrites them.
Reassemble ==
  /\ pc = "done"
  /\ run < MaxRuns
  /\ run' = run + 1
  /\ \E m \in {"scratch", "replay"} :
       /\ mode' = m
       /\ merged_s' = IF m = "scratch" THEN <<>> ELSE <<SENSOR_TYPES>>
       /\ merged_b' = IF m = "scratch" THEN <<>> ELSE <<BATTERY_SENSORS>>
  /\ prev' = [s |-> SENSOR_TYPES, b |-> BATTERY_SENSORS]
  /\ pc' = "sensor_types"
  /\ UNCHANGED <<SENSOR_TYPES, BATTERY_SENSORS, families, bfamilies, idx, i,
                 sensors>>

Next ==
  \/ AssignSensorTypes
  \/ CallGenerateChannelSensors
  \/ GenerateChannelSensorsStep
  \/ UpdateSensorTypes
  \/ AssignBatterySensors
  \/ CallGenerateBatterySensors
  \/ GenerateBatterySensorsStep
  \/ UpdateBatterySensors
  \/ Reassemble

Spec == Init /\ [][Next]_vars

(***************************************************************************)
(* The generators on free inputs: the module body with one family          *)
(* definition whose arguments are drawn from bounded sets.                 *)
(***************************************************************************)
\* characters that matter to the key rule: the suffix f and the marker _ch
KeyAlphabet == {"f", "_", "c", "h"}

BaseKeys ==
  UNION {[1..n -> KeyAlphabet] : n \in 0..MaxKeyLen}
    \cup {SensorFamilies[n].base_key : n \in DOMAIN SensorFamilies}

FreeSensorFamilies ==
  {[base_key |-> b, name_template |-> t, sensor_def |-> [unit |-> "%"],
    max_channels |-> n] :
     b \in BaseKeys,
     t \in {<<"C","H","{","c","h","}">>, <<"C","H">>},
     n \in -1..MaxCh}

FreeBatteryFamilies ==
  {[base_key |-> b, name_template |-> t, sensor_key_template |-> k,
    max_channels |-> n] :
     b \in {<<>>, <<"b","a","t","t">>},
     t \in {<<"C","H","{","c","h","}"," ","B">>},
     k \in {<<"t","{","c","h","}","f">>, <<"t","f">>},
     n \in -1..MaxCh}

InitGen ==
  /\ \/ \E f \in FreeSensorFamilies : families = <<f>> /\ bfamilies = <<>>
     \/ \E f \in FreeBatteryFamilies : families = <<>> /\ bfamilies = <<f>>
  /\ Start

SpecGen == InitGen /\ [][Next]_vars

(***************************************************************************)
(* Properties.                                                             *)
(***************************************************************************)
Assembled == pc = "done"

\* the statements of the current run have all been executed from the literals
AssembledFromScratch == pc = "done" /\ mode = "scratch"

tf_ch == <<"t","f","_","c","h">>
SoilTemperatureCH == <<"S","o","i","l"," ","T","e","m","p","e","r","a","t","u","r","e"," ","C","H">>

\* C1: once assembly is complete, the sensor_key of every entry of
\* BATTERY_SENSORS, fixed or generated, is a key of SENSOR_TYPES.
C1_BatteryParentsExist ==
  Assembled =>
    \A b \in DOMAIN BATTERY_SENSORS :
      BATTERY_SENSORS[b].sensor_key \in DOMAIN SENSOR_TYPES

\* assembly is complete with the generated entry batt1 -> temp1f and the
\* fixed entry wh68batt -> tempf in place
C1_Witness ==
  /\ Assembled
  /\ Cardinality(DOMAIN BATTERY_SENSORS) = 58
  /\ BATTERY_SENSORS[<<"b","a","t","t","1">>].sensor_key = <<"t","e","m","p","1","f">>
  /\ BATTERY_SENSORS[<<"w","h","6","8","b","a","t","t">>].sensor_key = <<"t","e","m","p","f">>
  /\ <<"t","e","m","p","1","f">> \in DOMAIN SENSOR_TYPES

\* C2: after the statements have run in their order, every tf_ch1..tf_ch8 is
\* in SENSOR_TYPES with unit °C and name "Soil Temperature CH<i>".
C2_SoilTemperatureIsCelsius ==
  Assembled =>
    \A ch \in 1..8 :
      /\ tf_ch \o Str(ch) \in DOMAIN SENSOR_TYPES
      /\ SENSOR_TYPES[tf_ch \o Str(ch)].unit = "°C"
      /\ SENSOR_TYPES[tf_ch \o Str(ch)].unit # "°F"
      /\ SENSOR_TYPES[tf_ch \o Str(ch)].name = SoilTemperatureCH \o Str(ch)

\* assembly is complete, the °F pass did write tf_ch2 and the °C pass
\* after it is the one that is left
C2_Witness ==
  /\ AssembledFromScratch
  /\ Len(merged_s) = 11
  /\ merged_s[9][<<"t","f","_","c","h","2">>].unit = "°F"
  /\ merged_s[10][<<"t","f","_","c","h","2">>].unit = "°C"
  /\ SENSOR_TYPES[<<"t","f","_","c","h","2">>].unit = "°C"

\* C3: in an assembly from the literals, two of the dicts written into
\* SENSOR_TYPES (the literal, then one per family statement) share a key
\* only if they are the two tf_ch passes, and then exactly tf_ch1..tf_ch8;
\* no two of the dicts written into BATTERY_SENSORS share a key.
C3_OnlySoilTemperatureOverwrites ==
  mode = "scratch" =>
    /\ \A a, b \in DOMAIN merged_s :
         (a < b /\ DOMAIN merged_s[a] \cap DOMAIN merged_s[b] # {}) =>
           /\ a = 9 /\ b = 10
           /\ DOMAIN merged_s[a] \cap DOMAIN merged_s[b]
                = {tf_ch \o Str(ch) : ch \in 1..8}
    /\ \A a, b \in DOMAIN merged_b :
         a < b => DOMAIN merged_b[a] \cap DOMAIN merged_b[b] = {}

\* every statement has run and the second tf_ch pass has overwritten tf_ch1..8
C3_Witness ==
  /\ AssembledFromScratch
  /\ Len(merged_s) = 11 /\ Len(merged_b) = 7
  /\ DOMAIN merged_s[9] \cap DOMAIN merged_s[10] = {tf_ch \o Str(ch) : ch \in 1..8}

\* the nine families of the claim: key = before <i> after, name = name <i>
DeclaredFamilies == {
  \* temp<i>f: "Temperature CH<i>"
  [before |-> <<"t","e","m","p">>, after |-> <<"f">>,
   name |-> <<"T","e","m","p","e","r","a","t","u","r","e"," ","C","H">>,
   count |-> 8, fields |-> [unit |-> "°C", device_class |-> "temperature"]],
  \* humidity<i>: "Humidity CH<i>"
  [before |-> <<"h","u","m","i","d","i","t","y">>, after |-> <<>>,
   name |-> <<"H","u","m","i","d","i","t","y"," ","C","H">>,
   count |-> 8, fields |-> [unit |-> "%", device_class |-> "humidity"]],
  \* soilmoisture<i>: "Soil Moisture CH<i>"
  [before |-> <<"s","o","i","l","m","o","i","s","t","u","r","e">>, after |-> <<>>,
   name |-> <<"S","o","i","l"," ","M","o","i","s","t","u","r","e"," ","C","H">>,
   count |-> 16, fields |-> [unit |-> "%", device_class |-> "moisture"]],
  \* pm25_ch<i>: "PM2.5 CH<i>"
  [before |-> <<"p","m","2","5","_","c","h">>, after |-> <<>>,
   name |-> <<"P","M","2",".","5"," ","C","H">>,
   count |-> 4, fields |-> [unit |-> "µg/m³", device_class |-> "pm25"]],
  \* pm25_avg_24h_ch<i>: "PM2.5 24h Avg CH<i>"
  [before |-> <<"p","m","2","5","_","a","v","g","_","2","4","h","_","c","h">>, after |-> <<>>,
   name |-> <<"P","M","2",".","5"," ","2","4","h"," ","A","v","g"," ","C","H">>,
   count |-> 4, fields |-> [unit |-> "µg/m³", device_class |-> "pm25"]],
  \* leak_ch<i>: "Leak Sensor CH<i>"
  [before |-> <<"l","e","a","k","_","c","h">>, after |-> <<>>,
   name |-> <<"L","e","a","k"," ","S","e","n","s","o","r"," ","C","H">>,
   count |-> 4, fields |-> [device_class |-> "moisture"]],
  \* leafwetness_ch<i>: "Leaf Wetness CH<i>"
  [before |-> <<"l","e","a","f","w","e","t","n","e","s","s","_","c","h">>, after |-> <<>>,
   name |-> <<"L","e","a","f"," ","W","e","t","n","e","s","s"," ","C","H">>,
   count |-> 8, fields |-> [unit |-> "%", device_class |-> "moisture"]],
  \* tf_ch<i>: "Soil Temperature CH<i>"
  [before |-> <<"t","f","_","c","h">>, after |-> <<>>,
   name |-> <<"S","o","i","l"," ","T","e","m","p","e","r","a","t","u","r","e"," ","C","H">>,
   count |-> 8, fields |-> [unit |-> "°C", device_class |-> "temperature"]],
  \* dewpoint<i>: "Dewpoint CH<i>"
  [before |-> <<"d","e","w","p","o","i","n","t">>, after |-> <<>>,
   name |-> <<"D","e","w","p","o","i","n","t"," ","C","H">>,
   count |-> 8, fields |-> [unit |-> "°F", device_class |-> "temperature"]]
}

\* C4: once assembly is complete, for each of the nine families and each
\* channel 1..N the key is in SENSOR_TYPES and its entry is the family's
\* shared fields plus the name with the channel substituted.
C4_AllChannelsPresent ==
  Assembled =>
    \A f \in DeclaredFamilies : \A ch \in 1..f.count :
      LET key == f.before \o Str(ch) \o f.after
      IN  /\ key \in DOMAIN SENSOR_TYPES
          /\ DOMAIN SENSOR_TYPES[key] = DOMAIN f.fields \cup {"name"}
          /\ SENSOR_TYPES[key].name = f.name \o Str(ch)
          /\ \A x \in DOMAIN f.fields : SENSOR_TYPES[key][x] = f.fields[x]

\* assembly is complete and soilmoisture3 is "Soil Moisture CH3", %, moisture
C4_Witness ==
  /\ Assembled
  /\ SENSOR_TYPES[<<"s","o","i","l","m","o","i","s","t","u","r","e","3">>]
       = [name |-> <<"S","o","i","l"," ","M","o","i","s","t","u","r","e"," ","C","H","3">>, unit |-> "%", device_class |-> "moisture"]
  /\ <<"s","o","i","l","m","o","i","s","t","u","r","e","1","6">> \in DOMAIN SENSOR_TYPES
  /\ <<"s","o","i","l","m","o","i","s","t","u","r","e","1","7">> \notin DOMAIN SENSOR_TYPES

\* two catalogs with the same keys and, for each key, the same fields and values
SameCatalog(c, d) ==
  /\ DOMAIN c = DOMAIN d
  /\ \A k \in DOMAIN c :
       /\ DOMAIN c[k] = DOMAIN d[k]
       /\ \A x \in DOMAIN c[k] : c[k][x] = d[k][x]

\* C5: when the assembly has been run again, from the literals or on top of
\* the assembled catalogs, both catalogs equal those of the run before.
C5_Idempotent ==
  (Assembled /\ run > 1) =>
    /\ SameCatalog(SENSOR_TYPES, prev.s)
    /\ SameCatalog(BATTERY_SENSORS, prev.b)

\* a second run on top of the catalogs of the first is complete
C5_Witness ==
  /\ Assembled /\ run = 2 /\ mode = "replay"
  /\ Len(merged_s) = 12
  /\ Cardinality(DOMAIN prev.s) = Cardinality(DOMAIN StaticSensorTypes) + 68

\* C6 as stated: assembly never completes with a family whose channel count
\* is not positive.
C6_NonPositiveCountStopsAssembly ==
  Assembled =>
    /\ \A n \in DOMAIN families : families[n].max_channels >= 1
    /\ \A n \in DOMAIN bfamilies : bfamilies[n].max_channels >= 1

\* C6 (amended): a channel count <= 0 is not rejected.  Either generator
\* then never writes an entry and returns the empty dict, the update that
\* merges it leaves the catalog as it was, and the statement after it runs.
C6_NonPositiveCountYieldsEmpty ==
  [][ /\ (pc = "channel_loop" /\ families[idx].max_channels <= 0) =>
           /\ sensors = EmptyDict
           /\ sensors' = EmptyDict
           /\ SENSOR_TYPES' = SENSOR_TYPES
           /\ pc' = AfterSensorFamily(idx + 1)
      /\ (pc = "battery_loop" /\ bfamilies[idx].max_channels <= 0) =>
           /\ sensors = EmptyDict
           /\ sensors' = EmptyDict
           /\ BATTERY_SENSORS' = BATTERY_SENSORS
           /\ pc' = AfterBatteryFamily(idx + 1)
    ]_vars

\* assembly is complete although the only sensor family has channel count 0:
\* the catalog is the literal
C6_Witness ==
  /\ Assembled /\ run = 1
  /\ Len(families) = 1 /\ families[1].max_channels = 0
  /\ merged_s = <<StaticSensorTypes, EmptyDict>>
  /\ SENSOR_TYPES = StaticSensorTypes

\* the key rule of the claim
RuleKey(base_key, ch) ==
  IF EndsWith(base_key, <<"f">>) /\ ~Contains(base_key, <<"_","c","h">>)
  THEN DropLast(base_key) \o Str(ch) \o <<"f">>
  ELSE base_key \o Str(ch)

\* C7: the keys the sensor-family generator has emitted are exactly the keys
\* of the rule for the channels done so far, and for 1..max_channels when it
\* has returned.
C7_KeyFormattingRule ==
  /\ pc = "channel_loop" =>
       DOMAIN sensors = {RuleKey(families[idx].base_key, ch) : ch \in 1..(i - 1)}
  /\ (pc \in {"battery_sensors", "done"} /\ families # <<>>) =>
       DOMAIN sensors = {RuleKey(families[Len(families)].base_key, ch) :
                           ch \in 1..families[Len(families)].max_channels}

\* the generator has returned two keys for a base key that ends in f and
\* holds the marker _ch
C7_Witness ==
  /\ pc = "battery_sensors"
  /\ Len(families) = 1
  /\ families[1].base_key = <<"_","c","h","f">>
  /\ families[1].max_channels = 2
  /\ DOMAIN sensors = {<<"_","c","h","f","1">>, <<"_","c","h","f","2">>}

\* which sensor family statement each battery family statement goes with
BatteryPairs == {
  [battery |-> 1, base_key |-> <<"s","o","i","l","b","a","t","t">>, sensor |-> 3],
  [battery |-> 2, base_key |-> <<"b","a","t","t">>, sensor |-> 1],
  [battery |-> 3, base_key |-> <<"p","m","2","5","b","a","t","t">>, sensor |-> 4],
  [battery |-> 4, base_key |-> <<"l","e","a","k","b","a","t","t">>, sensor |-> 6],
  [battery |-> 5, base_key |-> <<"t","f","_","b","a","t","t">>, sensor |-> 9],
  [battery |-> 6, base_key |-> <<"l","e","a","f","_","b","a","t","t">>, sensor |-> 7]
}

\* C8: once assembly is complete, each generated battery family has the
\* channel count of its sensor family, and for every channel i its key
\* base<i> is in BATTERY_SENSORS with the sensor_key the sensor generator
\* computes for channel i of that family, and for no other channel.
C8_BatteryChannelAligned ==
  Assembled =>
    \A p \in BatteryPairs :
      /\ bfamilies[p.battery].base_key = p.base_key
      /\ bfamilies[p.battery].max_channels = families[p.sensor].max_channels
      /\ \A ch \in 1..bfamilies[p.battery].max_channels :
           LET key == p.base_key \o Str(ch)
           IN  /\ key \in DOMAIN BATTERY_SENSORS
               /\ BATTERY_SENSORS[key].sensor_key
                    = ChannelKey(families[p.sensor].base_key, ch)
               /\ \A other \in 1..families[p.sensor].max_channels :
                    other # ch =>
                      BATTERY_SENSORS[key].sensor_key
                        # ChannelKey(families[p.sensor].base_key, other)

\* assembly is complete with batt3 -> temp3f and soilbatt16 -> soilmoisture16
C8_Witness ==
  /\ Assembled
  /\ BATTERY_SENSORS[<<"b","a","t","t","3">>].sensor_key = <<"t","e","m","p","3","f">>
  /\ BATTERY_SENSORS[<<"s","o","i","l","b","a","t","t","1","6">>].sensor_key = <<"s","o","i","l","m","o","i","s","t","u","r","e","1","6">>
  /\ BATTERY_SENSORS[<<"l","e","a","f","_","b","a","t","t","8">>].sensor_key = <<"l","e","a","f","w","e","t","n","e","s","s","_","c","h","8">>

\* the catalog a sequence of written dicts amounts to: each key with the
\* value of the last dict that holds it
LastWrite(log) ==
  [k \in UNION {DOMAIN log[n] : n \in DOMAIN log} |->
     LET last == CHOOSE n \in DOMAIN log :
                   /\ k \in DOMAIN log[n]
                   /\ \A m \in DOMAIN log : m > n => k \notin DOMAIN log[m]
     IN  log[last][k]]

\* a step that binds a catalog name to a literal
Rebinds(at) == mode = "scratch" /\ pc = at

\* C9: every step of an assembly keeps all keys a catalog has, an update
\* leaves the entries whose keys it does not hold as they were, and after
\* the step the catalog maps each key to the value of the last dict written
\* that holds the key.
C9_LastWriteWins ==
  [][ /\ ~Rebinds("sensor_types") =>
           DOMAIN SENSOR_TYPES \subseteq DOMAIN SENSOR_TYPES'
      /\ ~Rebinds("battery_sensors") =>
           DOMAIN BATTERY_SENSORS \subseteq DOMAIN BATTERY_SENSORS'
      /\ (pc = "channel_loop" /\ pc' # "channel_loop") =>
           \A k \in DOMAIN SENSOR_TYPES \ DOMAIN sensors :
             SENSOR_TYPES'[k] = SENSOR_TYPES[k]
      /\ (pc = "battery_loop" /\ pc' # "battery_loop") =>
           \A k \in DOMAIN BATTERY_SENSORS \ DOMAIN sensors :
             BATTERY_SENSORS'[k] = BATTERY_SENSORS[k]
      /\ merged_s' # <<>> => SENSOR_TYPES' = LastWrite(merged_s')
      /\ merged_b' # <<>> => BATTERY_SENSORS' = LastWrite(merged_b')
    ]_vars

\* every dict has been written, tf_ch1 twice, and the catalog holds the later value
C9_Witness ==
  /\ AssembledFromScratch
  /\ Len(merged_s) = 11
  /\ merged_s[9][<<"t","f","_","c","h","1">>] # merged_s[10][<<"t","f","_","c","h","1">>]
  /\ SENSOR_TYPES[<<"t","f","_","c","h","1">>] = merged_s[10][<<"t","f","_","c","h","1">>]
  /\ SENSOR_TYPES[<<"t","e","m","p","i","n","f">>] = merged_s[1][<<"t","e","m","p","i","n","f">>]

\* C10: once assembly is complete, every key of GATEWAY_SENSORS is a key of
\* SENSOR_TYPES.
C10_GatewaySensorsDescribed ==
  Assembled => GATEWAY_SENSORS \subseteq DOMAIN SENSOR_TYPES

\* assembly is complete and the six gateway keys are distinct keys of the catalog
C10_Witness ==
  /\ Assembled
  /\ Cardinality(GATEWAY_SENSORS \cap DOMAIN SENSOR_TYPES) = 6
  /\ SENSOR_TYPES[<<"5">>].device_class = "pressure"

====
